---- MODULE Spec2Model ----
(***************************************************************************)
(* Gesture classification (recognizeGesture) and the temporal smoothing    *)
(* loop (predictWebcam) of src/src/App.tsx.                                *)
(*                                                                         *)
(* Landmark coordinates are fixed-point: one unit is 0.01 of the frame, so *)
(* the source's 0.04 / 0.06 / 0.12 / 0.05 / 0.03 / 0.22 / 0.2 thresholds   *)
(* are 4 / 6 / 12 / 5 / 3 / 22 / 20 and Euclidean distances are compared   *)
(* squared.  A hand is a function from 0..n-1 to [x, y]; a detection       *)
(* result is the sequence of its hands (result[1] is hands[0]).            *)
(***************************************************************************)
EXTENDS Integers, Sequences, FiniteSets, TLC

----------------------------------------------------------------------------
(* Program constants *)

BUFFER_SIZE == 10

CONFIDENCE_THRESHOLD_Half == BUFFER_SIZE \div 2

CONFIDENCE_THRESHOLD == 7

HISTORY_CAP == 5

NUM_LANDMARKS == 21

(* recognizeGesture's "return null" and an uncaught TypeError *)
Null == "null"

TypeError == "TypeError"

Labels ==
  {"HELP", "STOP", "FOOD", "MEDICINE", "DANGER", "BAD", "GOOD", "REST ROOM",
   "NO", "WAIT", "SLEEP", "PLEASE", "HELLO", "THANK YOU", "LEFT", "RIGHT",
   "GO", "YES", "SORRY"}

----------------------------------------------------------------------------
(* Bounds of the model *)

MaxTime == 10

MaxStream == 8

----------------------------------------------------------------------------
(* recognizeGesture *)

Abs(v) == IF v < 0 THEN -v ELSE v

(* dist(p1, p2) squared *)
Dist2(p1, p2) == (p1.x - p2.x) * (p1.x - p2.x) + (p1.y - p2.y) * (p1.y - p2.y)

isFingerUp(landmarks, tip, pip, mcp) ==
  LET dy1 == landmarks[pip].y - landmarks[tip].y
      dy2 == landmarks[mcp].y - landmarks[pip].y
  IN  dy1 > 4 /\ (dy1 + dy2) > 6

(* landmark indices getHandData reads *)
AccessedIndices == {4, 5, 6, 8, 9, 10, 12, 13, 14, 16, 17, 18, 20}

(* landmarks[i] is undefined for i >= length, and reading .x/.y of it throws *)
Throws(landmarks) == \E i \in AccessedIndices : i \notin DOMAIN landmarks

getHandData(landmarks) ==
  [indexUp  |-> isFingerUp(landmarks, 8, 6, 5),
   middleUp |-> isFingerUp(landmarks, 12, 10, 9),
   ringUp   |-> isFingerUp(landmarks, 16, 14, 13),
   pinkyUp  |-> isFingerUp(landmarks, 20, 18, 17),
   thumbUp  |-> Dist2(landmarks[4], landmarks[5]) > 12 * 12,
   isFoodShape |-> /\ Dist2(landmarks[4], landmarks[8]) < 5 * 5
                   /\ Dist2(landmarks[4], landmarks[12]) < 5 * 5,
   isPointingLeft  |-> landmarks[8].x < landmarks[5].x - 12,
   isPointingRight |-> landmarks[8].x > landmarks[5].x + 12,
   landmarks |-> landmarks]

Flat(h) == h.indexUp /\ h.middleUp /\ h.ringUp /\ h.pinkyUp

Fist(h) == ~h.indexUp /\ ~h.middleUp /\ ~h.ringUp /\ ~h.pinkyUp

TwoHandGesture_OneOrder(h1, h2) ==
  IF Flat(h1) /\ Fist(h2) THEN "HELP"
  ELSE IF Flat(h1) /\ Flat(h2) THEN "STOP"
  ELSE Null

(* the TWO HAND GESTURES block; Null when it falls through *)
TwoHandGesture(h1, h2) ==
  IF (Flat(h1) /\ Fist(h2)) \/ (Flat(h2) /\ Fist(h1)) THEN "HELP"
  ELSE IF Flat(h1) /\ Flat(h2) THEN "STOP"
  ELSE Null

AllFingersUp_ThumbSwapped(h1) ==
  LET angle  == Abs(h1.landmarks[8].x - h1.landmarks[0].x)
      spread == Abs(h1.landmarks[8].x - h1.landmarks[20].x)
  IN  IF angle > 22 THEN "SLEEP"
      ELSE IF spread > 20 THEN "PLEASE"
      ELSE IF h1.thumbUp THEN "THANK YOU"
      ELSE "HELLO"

(* body of "4. All fingers up (with variations)" *)
AllFingersUp(h1) ==
  LET angle  == Abs(h1.landmarks[8].x - h1.landmarks[0].x)
      spread == Abs(h1.landmarks[8].x - h1.landmarks[20].x)
  IN  IF angle > 22 THEN "SLEEP"
      ELSE IF spread > 20 THEN "PLEASE"
      ELSE IF h1.thumbUp THEN "HELLO"
      ELSE "THANK YOU"

(* body of "3. Index and Middle combinations" *)
IndexMiddle(h1) ==
  LET d == Abs(h1.landmarks[8].x - h1.landmarks[12].x)
  IN  IF d < 3 THEN "REST ROOM"
      ELSE IF h1.thumbUp THEN "NO"
      ELSE "WAIT"

(* body of "5. Pointing / Go" *)
Pointing(h1) ==
  IF h1.isPointingLeft THEN "LEFT"
  ELSE IF h1.isPointingRight THEN "RIGHT"
  ELSE "GO"

(* body of "6. Fists" *)
Fists(h1) == IF h1.thumbUp THEN "YES" ELSE "SORRY"

(* SINGLE HAND GESTURES, in the source's priority order *)
SingleHandGesture(h1) ==
  IF h1.isFoodShape THEN "FOOD"
  ELSE IF h1.indexUp /\ ~h1.middleUp /\ h1.ringUp /\ h1.pinkyUp THEN "MEDICINE"
  ELSE IF h1.indexUp /\ h1.thumbUp /\ ~h1.middleUp /\ ~h1.ringUp /\ ~h1.pinkyUp
    THEN "DANGER"
  ELSE IF ~h1.indexUp /\ ~h1.middleUp /\ ~h1.ringUp /\ h1.pinkyUp /\ ~h1.thumbUp
    THEN "BAD"
  ELSE IF h1.thumbUp /\ ~h1.indexUp /\ ~h1.middleUp /\ ~h1.ringUp /\ ~h1.pinkyUp
    THEN "GOOD"
  ELSE IF h1.indexUp /\ h1.middleUp /\ ~h1.ringUp /\ ~h1.pinkyUp
    THEN IndexMiddle(h1)
  ELSE IF h1.indexUp /\ h1.middleUp /\ h1.ringUp /\ h1.pinkyUp
    THEN AllFingersUp(h1)
  ELSE IF h1.indexUp /\ ~h1.middleUp /\ ~h1.ringUp /\ ~h1.pinkyUp
    THEN Pointing(h1)
  ELSE IF ~h1.indexUp /\ ~h1.middleUp /\ ~h1.ringUp /\ ~h1.pinkyUp
    THEN Fists(h1)
  ELSE Null

(* the classifier: a label, Null, or TypeError when getHandData throws *)
recognizeGesture(result) ==
  IF Len(result) = 0 THEN Null
  ELSE IF Throws(result[1]) THEN TypeError
  ELSE IF Len(result) > 1 /\ Throws(result[2]) THEN TypeError
  ELSE LET h1 == getHandData(result[1])
           two == IF Len(result) > 1
                    THEN TwoHandGesture(h1, getHandData(result[2]))
                    ELSE Null
       IN  IF two # Null THEN two ELSE SingleHandGesture(h1)

----------------------------------------------------------------------------
(* Landmark inputs *)

(* vertical profile of a finger: y of MCP, PIP and tip *)
ProfUp == [mcp |-> 60, pip |-> 50, tip |-> 40]

ProfDown == [mcp |-> 60, pip |-> 55, tip |-> 62]

(* tip exactly 0.04 above the PIP *)
ProfBent == [mcp |-> 60, pip |-> 54, tip |-> 50]

(* tip 0.05 above the PIP but only 0.06 above the MCP *)
ProfShort == [mcp |-> 52, pip |-> 51, tip |-> 46]

Profiles == {ProfUp, ProfDown, ProfBent, ProfShort}

(* thumb tip placements: relative to the index MCP, or to the index tip *)
ThumbFar == [rel |-> "mcp", dx |-> -30, dy |-> 10]

ThumbEdge == [rel |-> "mcp", dx |-> 12, dy |-> 0]

ThumbDiag == [rel |-> "mcp", dx |-> 5, dy |-> 11]

ThumbPinch == [rel |-> "tip", dx |-> 1, dy |-> 3]

ThumbPinchEdge == [rel |-> "tip", dx |-> 3, dy |-> 4]

Thumbs == {ThumbFar, ThumbEdge, ThumbDiag, ThumbPinch, ThumbPinchEdge}

(* a 21-landmark hand; x8 is the index tip's x, d12/d20/d0 the x offsets of
   the middle tip, pinky tip and wrist from it *)
MkHand(pi, pm, pr, pp, x8, d12, d20, d0, th) ==
  LET imcp == [x |-> 50, y |-> pi.mcp]
      itip == [x |-> x8, y |-> pi.tip]
      base == IF th.rel = "mcp" THEN imcp ELSE itip
  IN  [i \in 0 .. NUM_LANDMARKS - 1 |->
        CASE i = 0  -> [x |-> x8 + d0, y |-> 90]
          [] i = 1  -> [x |-> 45, y |-> 80]
          [] i = 2  -> [x |-> 42, y |-> 72]
          [] i = 3  -> [x |-> 40, y |-> 66]
          [] i = 4  -> [x |-> base.x + th.dx, y |-> base.y + th.dy]
          [] i = 5  -> imcp
          [] i = 6  -> [x |-> 50, y |-> pi.pip]
          [] i = 7  -> [x |-> 50, y |-> pi.pip]
          [] i = 8  -> itip
          [] i = 9  -> [x |-> 55, y |-> pm.mcp]
          [] i = 10 -> [x |-> 55, y |-> pm.pip]
          [] i = 11 -> [x |-> 55, y |-> pm.pip]
          [] i = 12 -> [x |-> x8 + d12, y |-> pm.tip]
          [] i = 13 -> [x |-> 60, y |-> pr.mcp]
          [] i = 14 -> [x |-> 60, y |-> pr.pip]
          [] i = 15 -> [x |-> 60, y |-> pr.pip]
          [] i = 16 -> [x |-> 60, y |-> pr.tip]
          [] i = 17 -> [x |-> 65, y |-> pp.mcp]
          [] i = 18 -> [x |-> 65, y |-> pp.pip]
          [] i = 19 -> [x |-> 65, y |-> pp.pip]
          [] OTHER  -> [x |-> x8 + d20, y |-> pp.tip]]

(* the first n landmarks of a hand *)
Truncate(hand, n) == [i \in 0 .. n - 1 |-> hand[i]]

IndexTipXs == {37, 38, 50, 62, 63}

SingleHands ==
  {MkHand(pi, pm, pr, pp, x8, d12, d20, d0, th) :
     pi \in Profiles, pm \in Profiles, pr \in Profiles, pp \in Profiles,
     x8 \in IndexTipXs, d12 \in {2, 3}, d20 \in {20, 21}, d0 \in {-22, -23},
     th \in Thumbs}

PairHands ==
  {MkHand(pi, pm, pr, pp, 50, 2, 20, d0, th) :
     pi \in {ProfUp, ProfDown}, pm \in {ProfUp, ProfDown},
     pr \in {ProfUp, ProfDown}, pp \in {ProfUp, ProfDown},
     d0 \in {-22, -23}, th \in {ThumbFar, ThumbEdge, ThumbPinch}}

(* a thumb-up fist and an open palm with the thumb out *)
GoodHand == MkHand(ProfDown, ProfDown, ProfDown, ProfDown, 50, 2, 20, -22, ThumbFar)

HelloHand == MkHand(ProfUp, ProfUp, ProfUp, ProfUp, 50, 2, 20, -22, ThumbFar)

ShortHands == {Truncate(HelloHand, n) : n \in {0, 5, 20}}

MalformedResults ==
  {<<s>> : s \in ShortHands} \cup {<<GoodHand, s>> : s \in ShortHands}
    \cup {<<s, GoodHand>> : s \in ShortHands}

(* detection results the classifier is checked on *)
AllResults ==
  {<<>>} \cup {<<h>> : h \in SingleHands}
    \cup {<<a, b>> : a \in PairHands, b \in PairHands}
    \cup MalformedResults

(* detection results the video loop is run on *)
FrameSamples == {<<>>, <<GoodHand>>, <<HelloHand>>, <<Truncate(HelloHand, 20)>>}

(* raw labels the stabilizer is run on *)
RawSamples == {Null, "GOOD", "HELLO"}

----------------------------------------------------------------------------
(* Smoothing logic of predictWebcam *)

Range(s) == {s[i] : i \in 1 .. Len(s)}

Count(buf, g) == Cardinality({i \in 1 .. Len(buf) : buf[i] = g})

Push_EvictAtSize(buf, g) ==
  LET b == Append(buf, g)
  IN  IF Len(b) >= BUFFER_SIZE THEN Tail(b) ELSE b

(* smoothingBuffer.push(rawGesture); shift() when longer than BUFFER_SIZE *)
Push(buf, g) ==
  LET b == Append(buf, g)
  IN  IF Len(b) > BUFFER_SIZE THEN Tail(b) ELSE b

NoGesture_Shift(buf) == IF buf = <<>> THEN buf ELSE Tail(buf)

(* the else branch: the shift() is commented out *)
NoGesture(buf) == buf

MaxCount(buf) ==
  IF buf = <<>> THEN 0
  ELSE CHOOSE c \in 1 .. Len(buf) :
         /\ \E g \in Range(buf) : Count(buf, g) = c
         /\ \A g \in Range(buf) : Count(buf, g) <= c

FirstIndex(buf, g) == CHOOSE i \in 1 .. Len(buf) :
                        buf[i] = g /\ \A j \in 1 .. i - 1 : buf[j] # g

(* Object.entries(counts) iterates in first-insertion order and the loop
   keeps the first key with the largest count *)
BestGesture(buf) ==
  IF buf = <<>> THEN ""
  ELSE CHOOSE g \in Range(buf) :
         /\ Count(buf, g) = MaxCount(buf)
         /\ \A h \in Range(buf) :
              Count(buf, h) = MaxCount(buf) => FirstIndex(buf, g) <= FirstIndex(buf, h)

ShouldConfirm_NoEdge(maxCount, bestGesture, word) ==
  maxCount >= CONFIDENCE_THRESHOLD

ShouldConfirm_Majority(maxCount, bestGesture, word) ==
  maxCount > BUFFER_SIZE \div 2 /\ bestGesture # word

ShouldConfirm_Strict(maxCount, bestGesture, word) ==
  maxCount > CONFIDENCE_THRESHOLD /\ bestGesture # word

ShouldConfirm(maxCount, bestGesture, word) ==
  maxCount >= CONFIDENCE_THRESHOLD /\ bestGesture # word

(* [bestGesture, ...prev].slice(0, 5) *)
PushHistory(prev, g) == SubSeq(<<g>> \o prev, 1, IF Len(prev) + 1 < HISTORY_CAP
                                                   THEN Len(prev) + 1 ELSE HISTORY_CAP)

(* lines 218-246 on stabilizer state st = [buffer, word, history, events] *)
Smooth(st, rawGesture) ==
  IF rawGesture # Null
    THEN LET buf  == Push(st.buffer, rawGesture)
             best == BestGesture(buf)
         IN  IF ShouldConfirm(MaxCount(buf), best, st.word)
               THEN [buffer  |-> buf,
                     word    |-> best,
                     history |-> PushHistory(st.history, best),
                     events  |-> Append(st.events, best)]
               ELSE [st EXCEPT !.buffer = buf]
    ELSE [st EXCEPT !.buffer = NoGesture(st.buffer)]

----------------------------------------------------------------------------
(* State *)

VARIABLES
  handLandmarker,    \* "null" until initMediaPipe resolves, then "ready"
  readyState,        \* videoRef.current.readyState
  currentTime,       \* videoRef.current.currentTime
  result,            \* what detectForVideo returns for the current video frame
  isTracking,
  lastVideoTimeRef,
  requestRef,        \* TRUE while an animation-frame callback is pending
  smoothingBuffer,
  detectedWordRef,
  gestureHistory,
  events,            \* labels the confirmation branch ran for, in order
  nPushed,           \* number of smoothingBuffer.push calls so far
  cleared,           \* clearText has been called
  rawGesture,        \* classifier output (classifier specification)
  stream,            \* raw results fed to the stabilizer (stream specification)
  pos,               \* number of stream entries consumed
  shadow             \* stabilizer fed the stream without its null entries

vars == <<handLandmarker, readyState, currentTime, result, isTracking,
          lastVideoTimeRef, requestRef, smoothingBuffer, detectedWordRef,
          gestureHistory, events, nPushed, cleared, rawGesture, stream, pos,
          shadow>>

loopVars == <<handLandmarker, readyState, currentTime, result, isTracking,
              lastVideoTimeRef, requestRef>>

stabVars == <<smoothingBuffer, detectedWordRef, gestureHistory, events, nPushed>>

auxVars == <<rawGesture, stream, pos, shadow>>

EmptyStab == [buffer |-> <<>>, word |-> "", history |-> <<>>, events |-> <<>>]

Stab == [buffer |-> smoothingBuffer, word |-> detectedWordRef,
         history |-> gestureHistory, events |-> events]

Init ==
  /\ handLandmarker = "null"
  /\ readyState = 0
  /\ currentTime = 0
  /\ result = <<>>
  /\ isTracking = TRUE
  /\ lastVideoTimeRef = -1
  /\ requestRef = TRUE
  /\ smoothingBuffer = <<>>
  /\ detectedWordRef = ""
  /\ gestureHistory = <<>>
  /\ events = <<>>
  /\ nPushed = 0
  /\ cleared = FALSE
  /\ rawGesture = "pending"
  /\ stream = <<>>
  /\ pos = 0
  /\ shadow = EmptyStab

----------------------------------------------------------------------------
(* Operations *)

(* initMediaPipe resolves: setHandLandmarker changes predictWebcam's identity,
   so the effect cancels the pending callback and requests a new one *)
initMediaPipe ==
  /\ handLandmarker = "null"
  /\ handLandmarker' = "ready"
  /\ requestRef' = TRUE
  /\ UNCHANGED <<readyState, currentTime, result, isTracking, lastVideoTimeRef,
                 stabVars, cleared, auxVars>>

(* setupCamera: the stream starts playing and has a first frame *)
setupCamera ==
  /\ readyState = 0
  /\ readyState' = 4
  /\ \E r \in FrameSamples : result' = r
  /\ UNCHANGED <<handLandmarker, currentTime, isTracking, lastVideoTimeRef,
                 requestRef, stabVars, cleared, auxVars>>

(* the camera delivers the next video frame *)
VideoAdvance ==
  /\ readyState >= 2
  /\ currentTime < MaxTime
  /\ currentTime' = currentTime + 1
  /\ \E r \in FrameSamples : result' = r
  /\ UNCHANGED <<handLandmarker, readyState, isTracking, lastVideoTimeRef,
                 requestRef, stabVars, cleared, auxVars>>

Paused_NoTrackingCheck == handLandmarker = "null"

(* the early-return condition (videoRef.current is always mounted) *)
Paused == handLandmarker = "null" \/ ~isTracking

(* predictWebcam returns early and re-requests itself *)
predictWebcam_Idle ==
  /\ requestRef
  /\ Paused
  /\ UNCHANGED vars

NewFrame_NoDedup == readyState >= 2

(* the video has data and its time is not the last processed one *)
NewFrame == readyState >= 2 /\ lastVideoTimeRef # currentTime

(* predictWebcam with nothing new to process *)
predictWebcam_Skip ==
  /\ requestRef
  /\ ~Paused
  /\ ~NewFrame
  /\ UNCHANGED vars

(* predictWebcam on a new video frame *)
predictWebcam_Frame ==
  /\ requestRef
  /\ ~Paused
  /\ NewFrame
  /\ lastVideoTimeRef' = currentTime
  /\ LET raw == recognizeGesture(result)
     IN  IF raw = TypeError
           THEN \* the exception leaves the callback before line 290
                /\ requestRef' = FALSE
                /\ UNCHANGED stabVars
           ELSE LET st == Smooth(Stab, raw)
                IN  /\ requestRef' = TRUE
                    /\ smoothingBuffer' = st.buffer
                    /\ detectedWordRef' = st.word
                    /\ gestureHistory' = st.history
                    /\ events' = st.events
                    /\ nPushed' = IF raw # Null THEN nPushed + 1 ELSE nPushed
  /\ UNCHANGED <<handLandmarker, readyState, currentTime, result, isTracking,
                 cleared, auxVars>>

predictWebcam == predictWebcam_Idle \/ predictWebcam_Skip \/ predictWebcam_Frame

(* setIsTracking changes predictWebcam's identity: the effect re-requests it *)
toggleTracking ==
  /\ isTracking' = ~isTracking
  /\ requestRef' = TRUE
  /\ UNCHANGED <<handLandmarker, readyState, currentTime, result,
                 lastVideoTimeRef, stabVars, cleared, auxVars>>

clearText ==
  /\ detectedWordRef' = ""
  /\ cleared' = TRUE
  /\ UNCHANGED <<loopVars, smoothingBuffer, gestureHistory, events, nPushed,
                 auxVars>>

Next ==
  \/ initMediaPipe
  \/ setupCamera
  \/ VideoAdvance
  \/ predictWebcam
  \/ toggleTracking
  \/ clearText

Spec == Init /\ [][Next]_vars

----------------------------------------------------------------------------
(* Classifier specification: one detection result, classified once *)

ClassifyInit ==
  /\ handLandmarker = "ready"
  /\ readyState = 4
  /\ currentTime = 0
  /\ result \in AllResults
  /\ isTracking = TRUE
  /\ lastVideoTimeRef = -1
  /\ requestRef = TRUE
  /\ smoothingBuffer = <<>>
  /\ detectedWordRef = ""
  /\ gestureHistory = <<>>
  /\ events = <<>>
  /\ nPushed = 0
  /\ cleared = FALSE
  /\ rawGesture = "pending"
  /\ stream = <<>>
  /\ pos = 0
  /\ shadow = EmptyStab

Classify ==
  /\ rawGesture = "pending"
  /\ rawGesture' = recognizeGesture(result)
  /\ UNCHANGED <<loopVars, stabVars, cleared, stream, pos, shadow>>

ClassifySpec == ClassifyInit /\ [][Classify]_vars

----------------------------------------------------------------------------
(* Stream specification: the stabilizer run on a stream of raw results, next
   to a stabilizer that is fed the same stream without its null entries *)

Streams == UNION {[1 .. n -> RawSamples] : n \in 0 .. MaxStream}

StreamInit ==
  /\ handLandmarker = "ready"
  /\ readyState = 4
  /\ currentTime = 0
  /\ result = <<>>
  /\ isTracking = TRUE
  /\ lastVideoTimeRef = -1
  /\ requestRef = TRUE
  /\ smoothingBuffer = <<>>
  /\ detectedWordRef = ""
  /\ gestureHistory = <<>>
  /\ events = <<>>
  /\ nPushed = 0
  /\ cleared = FALSE
  /\ rawGesture = "pending"
  /\ stream \in Streams
  /\ pos = 0
  /\ shadow = EmptyStab

StreamStep ==
  /\ pos < Len(stream)
  /\ pos' = pos + 1
  /\ LET raw == stream[pos + 1]
         st  == Smooth(Stab, raw)
     IN  /\ smoothingBuffer' = st.buffer
         /\ detectedWordRef' = st.word
         /\ gestureHistory' = st.history
         /\ events' = st.events
         /\ nPushed' = IF raw # Null THEN nPushed + 1 ELSE nPushed
         /\ shadow' = IF raw # Null THEN Smooth(shadow, raw) ELSE shadow
  /\ UNCHANGED <<loopVars, cleared, rawGesture, stream>>

StreamSpec == StreamInit /\ [][StreamStep]_vars

----------------------------------------------------------------------------
(* Properties *)

T == CONFIDENCE_THRESHOLD

N == BUFFER_SIZE

AllSame(buf, g) == buf # <<>> /\ \A i \in 1 .. Len(buf) : buf[i] = g

(* a step in which predictWebcam processed a video frame *)
FrameStep == lastVideoTimeRef' # lastVideoTimeRef

(* a step in which smoothingBuffer.push ran *)
PushStep == nPushed' = nPushed + 1

WellFormed(r) == \A i \in 1 .. Len(r) : ~Throws(r[i])

C1_FirstConfirmation ==
  \A g \in Range(smoothingBuffer) :
    (~cleared /\ nPushed = Len(smoothingBuffer) /\ AllSame(smoothingBuffer, g))
      => IF nPushed >= T
           THEN events = <<g>> /\ detectedWordRef = g /\ gestureHistory = <<g>>
           ELSE events = <<>> /\ detectedWordRef = "" /\ gestureHistory = <<>>

C1_NoFurther ==
  (/\ FrameStep
   /\ detectedWordRef # ""
   /\ \A g \in Range(smoothingBuffer') \ {detectedWordRef} :
        Count(smoothingBuffer', g) < T)
    => events' = events /\ detectedWordRef' = detectedWordRef

(* C1: with no clear, while every push so far was the same label g (at most N
   pushes, so the buffer is the whole push log), there is no confirmation
   before the T-th push and exactly one, for g, from the T-th push on; and a
   processed frame fires no confirmation while a label is confirmed and no
   other label reaches T in the buffer. *)
C1_OneConfirmation == [](C1_FirstConfirmation) /\ [][C1_NoFurther]_vars

C1_Witness ==
  /\ ~cleared
  /\ nPushed = N
  /\ events = <<"GOOD">>
  /\ Count(smoothingBuffer, "GOOD") = T
  /\ Count(smoothingBuffer, "HELLO") = N - T

C2_Step ==
  /\ (FrameStep /\ detectedWordRef' # detectedWordRef)
       => /\ PushStep
          /\ Count(smoothingBuffer', detectedWordRef') >= T
          /\ events' = Append(events, detectedWordRef')
  /\ (detectedWordRef' = detectedWordRef) => events' = events
  /\ (~FrameStep /\ detectedWordRef' # detectedWordRef)
       => detectedWordRef' = "" /\ cleared' /\ events' = events

(* C2: a processed frame changes detectedWordRef only to a label that has at
   least T entries in the buffer after the push, and emits exactly that
   confirmation; a step that leaves detectedWordRef unchanged emits nothing;
   the only other change of detectedWordRef is the clear. *)
C2_ChangeOnlyOnThreshold == [][C2_Step]_vars

C2_Witness ==
  /\ events # <<>>
  /\ detectedWordRef = events[Len(events)]
  /\ Count(smoothingBuffer, detectedWordRef) = T
  /\ ~cleared

C3_Bound ==
  /\ Len(smoothingBuffer) <= N
  /\ Len(smoothingBuffer) = IF nPushed < N THEN nPushed ELSE N

C3_Fifo ==
  IF PushStep
    THEN LET b  == smoothingBuffer
             b2 == smoothingBuffer'
         IN  /\ b2 # <<>>
             /\ b2[Len(b2)] = recognizeGesture(result)
             /\ SubSeq(b2, 1, Len(b2) - 1) = IF Len(b) < N THEN b ELSE SubSeq(b, 2, N)
    ELSE smoothingBuffer' = smoothingBuffer

(* C3: the buffer never holds more than N labels, holds exactly N once N or
   more have been pushed, and every push appends the new label at the end and
   drops only the oldest one, and only when the buffer was full. *)
C3_BoundedFifo == [](C3_Bound) /\ [][C3_Fifo]_vars

C3_Witness ==
  /\ nPushed = N + 1
  /\ Len(smoothingBuffer) = N
  /\ smoothingBuffer[1] = "HELLO"
  /\ smoothingBuffer[N] = "GOOD"

(* C4: after any prefix of a stream of raw results, the buffer, the confirmed
   label, the history and the sequence of confirmation events equal those of
   a stabilizer that was fed the same prefix without its null entries. *)
C4_NullFramesSkipped == Stab = shadow

C4_Witness ==
  /\ pos = Len(stream)
  /\ Len(stream) = T + 1
  /\ stream[T] = Null
  /\ events = <<"HELLO">>

(* C5 as claimed: the same label is confirmed twice in a row (which takes a
   clear in between) only after T pushes for the first confirmation and T
   new pushes after the clear. *)
C5_ClearEmptiesBuffer ==
  \A i \in 2 .. Len(events) : events[i] = events[i - 1] => nPushed >= 2 * T

HasShortHand(r) == \E i \in 1 .. Len(r) : Cardinality(DOMAIN r[i]) < NUM_LANDMARKS

(* C6 as claimed: a detection result with a hand of fewer than 21 landmarks
   is classified as no gesture. *)
C6_ShortHandIsNull ==
  (rawGesture # "pending" /\ HasShortHand(result)) => rawGesture = Null

FourUp(hand) == Flat(getHandData(hand))

FourDown(hand) == Fist(getHandData(hand))

(* C7: two hands, one with all four fingers up and the other with all four
   down, in either order, classify as HELP. *)
C7_FlatAndFistIsHelp ==
  (/\ rawGesture # "pending"
   /\ Len(result) = 2
   /\ WellFormed(result)
   /\ \/ FourUp(result[1]) /\ FourDown(result[2])
      \/ FourUp(result[2]) /\ FourDown(result[1]))
    => rawGesture = "HELP"

C7_Witness ==
  /\ rawGesture = "HELP"
  /\ Len(result) = 2
  /\ FourDown(result[1])
  /\ getHandData(result[1]).isFoodShape
  /\ getHandData(result[2]).isFoodShape

(* C8 as claimed: a single hand with all four fingers down classifies as YES
   when the thumb is up and as SORRY when it is not. *)
C8_FistIsYesOrSorry ==
  (/\ rawGesture # "pending"
   /\ Len(result) = 1
   /\ WellFormed(result)
   /\ FourDown(result[1]))
    => rawGesture = IF getHandData(result[1]).thumbUp THEN "YES" ELSE "SORRY"

OpenPalm(hand) ==
  /\ FourUp(hand)
  /\ Dist2(hand[4], hand[5]) > 12 * 12
  /\ Abs(hand[8].x - hand[0].x) <= 22
  /\ Abs(hand[8].x - hand[20].x) <= 20

Pinch(hand) == Dist2(hand[4], hand[8]) < 5 * 5 /\ Dist2(hand[4], hand[12]) < 5 * 5

(* C9 as claimed: a single open palm with the thumb out, no tilt and no
   spread classifies as HELLO. *)
C9_OpenPalmIsHello ==
  (/\ rawGesture # "pending"
   /\ Len(result) = 1
   /\ WellFormed(result)
   /\ OpenPalm(result[1]))
    => rawGesture = "HELLO"

(* C9 amended: a single open palm with the thumb out, no tilt and no spread,
   whose thumb tip is not within 0.05 of both the index and the middle tip,
   classifies as HELLO. *)
C9_OpenPalmNoPinchIsHello ==
  (/\ rawGesture # "pending"
   /\ Len(result) = 1
   /\ WellFormed(result)
   /\ OpenPalm(result[1])
   /\ ~Pinch(result[1]))
    => rawGesture = "HELLO"

C9_Witness ==
  /\ rawGesture = "HELLO"
  /\ Len(result) = 1
  /\ Abs(result[1][8].x - result[1][0].x) = 22
  /\ Abs(result[1][8].x - result[1][20].x) = 20
  /\ Dist2(result[1][4], result[1][8]) = 5 * 5

C10_Step ==
  /\ ~isTracking
       => /\ UNCHANGED <<smoothingBuffer, gestureHistory, events, nPushed,
                         lastVideoTimeRef>>
          /\ detectedWordRef' # detectedWordRef => detectedWordRef' = "" /\ cleared'
  /\ isTracking' # isTracking
       => UNCHANGED <<smoothingBuffer, detectedWordRef, gestureHistory, events,
                      nPushed, lastVideoTimeRef>>

(* C10: while isTracking is false no frame is processed, nothing is pushed
   and no confirmation fires, and only the clear changes detectedWordRef;
   switching tracking off or on leaves the buffer and detectedWordRef as they
   were. *)
C10_PausedKeepsState == [][C10_Step]_vars

C10_Witness ==
  /\ ~isTracking
  /\ Len(smoothingBuffer) = T - 1
  /\ lastVideoTimeRef < currentTime
  /\ handLandmarker = "ready"

C11_Step ==
  /\ PushStep
       => \A g \in Range(smoothingBuffer') :
            Count(smoothingBuffer', g) >= T => detectedWordRef' = g
  /\ (/\ PushStep
      /\ detectedWordRef # ""
      /\ Len(smoothingBuffer) = N
      /\ AllSame(smoothingBuffer, detectedWordRef))
       => detectedWordRef' = detectedWordRef

(* C11: after every processed frame that pushes a label, a label that holds
   at least T of the buffer's entries is the confirmed label; and when the
   confirmed label fills all N entries of the buffer, a frame that pushes
   any label leaves it confirmed. *)
C11_SustainedConfirmsSingleKeeps == [][C11_Step]_vars

C11_Witness ==
  /\ nPushed = N + 1
  /\ detectedWordRef = "GOOD"
  /\ Count(smoothingBuffer, "GOOD") = N - 1
  /\ smoothingBuffer[N] = "HELLO"
  /\ events = <<"GOOD">>

C12_Marker == lastVideoTimeRef <= currentTime

C12_Step ==
  /\ lastVideoTimeRef = currentTime
       => /\ UNCHANGED <<lastVideoTimeRef, smoothingBuffer, gestureHistory,
                         events, nPushed>>
          /\ detectedWordRef' # detectedWordRef => detectedWordRef' = "" /\ cleared'
  /\ FrameStep
       => /\ lastVideoTimeRef < currentTime
          /\ lastVideoTimeRef' = currentTime
          /\ currentTime' = currentTime
          /\ LET raw == recognizeGesture(result)
             IN  IF raw \in Labels
                   THEN /\ PushStep
                        /\ smoothingBuffer'[Len(smoothingBuffer')] = raw
                        /\ Len(events') <= Len(events) + 1
                   ELSE UNCHANGED <<smoothingBuffer, detectedWordRef,
                                    gestureHistory, events, nPushed>>

(* C12: the last-processed marker never runs ahead of the video time; in a
   state where it equals the video time no step processes a frame, pushes or
   confirms; and a step that processes a frame happens only when the marker
   is behind the video time, sets the marker to that time, and pushes the
   frame's label exactly once (nothing when the frame has no label). *)
C12_OncePerTimestamp == [](C12_Marker) /\ [][C12_Step]_vars

C12_Witness ==
  /\ lastVideoTimeRef = currentTime
  /\ currentTime = 3
  /\ nPushed = 2
  /\ requestRef
  /\ isTracking
  /\ handLandmarker = "ready"

AtThreshold(buf) == {g \in Range(buf) : Count(buf, g) >= T}

C13_AtMostOne == Cardinality(AtThreshold(smoothingBuffer)) <= 1

C13_Step ==
  events' # events
    => /\ AtThreshold(smoothingBuffer') = {detectedWordRef'}
       /\ \A g \in Range(smoothingBuffer') \ {detectedWordRef'} :
            Count(smoothingBuffer', g) < Count(smoothingBuffer', detectedWordRef')

(* C13: in every reachable state at most one label has T or more entries in
   the buffer; and whenever a confirmation fires, the confirmed label is the
   only label at the threshold and has strictly more entries than any other
   label, so no tie is broken. *)
C13_UniqueAtThreshold == [](C13_AtMostOne) /\ [][C13_Step]_vars

C13_Witness ==
  /\ events = <<"GOOD">>
  /\ detectedWordRef = "GOOD"
  /\ Len(smoothingBuffer) = N
  /\ smoothingBuffer[1] = "HELLO"
  /\ Count(smoothingBuffer, "HELLO") = N - T
  /\ Count(smoothingBuffer, "GOOD") = T

====
